---- MODULE Spec2Model ----
(***************************************************************************)
(* paletten-cloud-hub: the message-driven control pipeline of              *)
(* src/src/controller.rs.  Two tasks (main.rs:30-31) share one bounded     *)
(* channel of Actions: the Controller polls the MQTT event loop and parses *)
(* publishes into Actions, the Executor takes them in order, keeps the     *)
(* control State, publishes heater commands and writes history rows.       *)
(*                                                                         *)
(* Byte strings are sequences of atoms.  An atom is one character, or a    *)
(* literal chunk of a topic that the code only ever compares as a whole    *)
(* ("temperature/", "/relay/0", "true").  An f64 is an integer number of   *)
(* tenths, so 21.5 is 215; the payloads of the model have at most one      *)
(* fractional digit and neither exponent nor inf/nan.                      *)
(***************************************************************************)
EXTENDS Integers, Sequences, FiniteSets, TLC

(***************************************************************************)
(* Bounds of the model.                                                    *)
(***************************************************************************)
\* Notifications the event loop yields in a run of Spec.
MaxEvents == 4
\* Notifications that follow the first one in a run of SpecParse.
MaxParseEvents == 2
\* Measurement publishes that follow the first QueueCap ones in SpecBurst.
MaxBurstExtra == 2
\* Polls after the burst of SpecTransport that may take a request out of the
\* client's buffer.
MaxTransportExtra == 1

(***************************************************************************)
(* Program constants.                                                      *)
(***************************************************************************)
\* channel::<Action>(10)
QueueCap == 10

\* AsyncClient::new(mqtt_options, 10): the capacity of the client's buffer
\* of requests the event loop has not yet taken.
RequestCap == 10

\* lazy_static HEATERS: the ids, in registry order.
HEATERS ==
    << <<"C", "4", "4", "0", "2", "D">>,
       <<"C", "4", "3", "1", "F", "B">>,
       <<"1", "0", "D", "B", "9", "C">> >>

Digits == <<"0", "1", "2", "3", "4", "5", "6", "7", "8", "9">>

\* The character class [A-F0-9] of the heater regex.
UpperHex == {Digits[i] : i \in 1..10} \cup {"A", "B", "C", "D", "E", "F"}

(***************************************************************************)
(* Option and Result values.                                               *)
(***************************************************************************)
None == [some |-> FALSE]
Some(v) == [some |-> TRUE, v |-> v]

Ok(v) == [ok |-> TRUE, v |-> v]
Err(why) == [ok |-> FALSE, why |-> why]

(***************************************************************************)
(* models.rs: HeaterState and its strum encodings.                         *)
(***************************************************************************)
HeaterState == {"Off", "On"}

\* strum::Display: state.to_string()
HeaterStateToString(s) == IF s = "On" THEN <<"on">> ELSE <<"off">>

\* from_str with the two tokens exchanged.
HeaterStateFromStr_swapped(bytes) ==
    IF bytes = <<"off">> THEN Ok("On")
    ELSE IF bytes = <<"on">> THEN Ok("Off")
    ELSE Err("payload is not a valid state")

\* strum::EnumString: HeaterState::from_str, exact and case sensitive.
HeaterStateFromStr(bytes) ==
    IF bytes = <<"off">> THEN Ok("Off")
    ELSE IF bytes = <<"on">> THEN Ok("On")
    ELSE Err("payload is not a valid state")

(***************************************************************************)
(* Byte-string helpers.                                                    *)
(***************************************************************************)
StartsWith(s, p) == Len(s) >= Len(p) /\ SubSeq(s, 1, Len(p)) = p

\* The offsets at which a regex consisting of the literal atoms `lit`
\* followed by `n` atoms of class `cls` and the literal atoms `tail` matches.
MatchesAt(s, lit, n, cls, tail) ==
    {i \in 1..Len(s) :
        /\ i + Len(lit) + n + Len(tail) - 1 <= Len(s)
        /\ SubSeq(s, i, i + Len(lit) - 1) = lit
        /\ \A k \in 1..n : s[i + Len(lit) + k - 1] \in cls
        /\ SubSeq(s, i + Len(lit) + n, i + Len(lit) + n + Len(tail) - 1) = tail}

Min(S) == CHOOSE m \in S : \A k \in S : m <= k

(***************************************************************************)
(* parse_float_payload: str::parse::<f64> on the payload's text.           *)
(* Accepts [+-] digits [. digits] with at least one digit.                 *)
(***************************************************************************)
DigitSet == {Digits[i] : i \in 1..10}
DigitVal(c) == (CHOOSE i \in 1..10 : Digits[i] = c) - 1

\* The value of the decimal digits `ds`, read from the left.
DecVal(ds) ==
    LET acc[i \in 0..Len(ds)] ==
            IF i = 0 THEN 0 ELSE acc[i - 1] * 10 + DigitVal(ds[i])
    IN  acc[Len(ds)]

\* The value, in tenths, of the fractional digits `ds` (at most one here).
FracVal(ds) == IF ds = <<>> THEN 0 ELSE DigitVal(ds[1])

\* The text without its sign, its integer digits and its fractional digits.
FloatBody(bytes) ==
    IF bytes # <<>> /\ bytes[1] \in {"+", "-"} THEN Tail(bytes) ELSE bytes
FloatDots(bytes) ==
    {i \in 1..Len(FloatBody(bytes)) : FloatBody(bytes)[i] = "."}
FloatInt(bytes) ==
    IF FloatDots(bytes) = {} THEN FloatBody(bytes)
    ELSE SubSeq(FloatBody(bytes), 1, Min(FloatDots(bytes)) - 1)
FloatFrac(bytes) ==
    IF FloatDots(bytes) = {} THEN <<>>
    ELSE SubSeq(FloatBody(bytes), Min(FloatDots(bytes)) + 1,
                Len(FloatBody(bytes)))

IsFloatText(bytes) ==
    /\ Cardinality(FloatDots(bytes)) <= 1
    /\ \A i \in 1..Len(FloatInt(bytes)) : FloatInt(bytes)[i] \in DigitSet
    /\ \A i \in 1..Len(FloatFrac(bytes)) : FloatFrac(bytes)[i] \in DigitSet
    /\ Len(FloatInt(bytes)) + Len(FloatFrac(bytes)) >= 1

FloatValue(bytes) ==
    LET mag == DecVal(FloatInt(bytes)) * 10 + FracVal(FloatFrac(bytes))
    IN  IF bytes[1] = "-" THEN 0 - mag ELSE mag

\* unwrap_or_default in place of `?`: a bad payload reads as 0.0.
parse_float_payload_or_default(bytes) ==
    IF IsFloatText(bytes) THEN Ok(FloatValue(bytes)) ELSE Ok(0)

parse_float_payload(bytes) ==
    IF IsFloatText(bytes) THEN Ok(FloatValue(bytes))
    ELSE Err("Failed to parse temperature to float")

(***************************************************************************)
(* models.rs: Measurement, read by serde_json::from_slice.  A payload      *)
(* carries its text and the JSON value that text denotes; the derived      *)
(* Deserialize of Measurement is what is modelled: an object whose members *)
(* `temperature` and `humidity` are each given once as a number; other     *)
(* members are ignored.                                                    *)
(***************************************************************************)
JInvalid == [t |-> "invalid"]
JNum(n) == [t |-> "num", n |-> n]
JStr == [t |-> "str"]
JBool == [t |-> "bool"]
JObj(members) == [t |-> "obj", members |-> members]
Member(k, v) == [key |-> k, val |-> v]

Measurement(t, h) == [temperature |-> t, humidity |-> h]

DeserializeMeasurement(json) ==
    IF json.t # "obj" THEN Err("invalid type")
    ELSE
        LET ms == json.members
            At(k) == {i \in 1..Len(ms) : ms[i].key = k}
            known == At("temperature") \cup At("humidity")
        IN  IF Cardinality(At("temperature")) > 1
                \/ Cardinality(At("humidity")) > 1
            THEN Err("duplicate field")
            ELSE IF \E i \in known : ms[i].val.t # "num"
            THEN Err("invalid type")
            ELSE IF At("temperature") = {} \/ At("humidity") = {}
            THEN Err("missing field")
            ELSE Ok(Measurement(ms[Min(At("temperature"))].val.n,
                                ms[Min(At("humidity"))].val.n))

(***************************************************************************)
(* controller.rs: Action, and what the event loop's poll() yields.         *)
(***************************************************************************)
SetDesiredTemperature(t) == [type |-> "SetDesiredTemperature", temp |-> t]
SetInsideTemperature(t) == [type |-> "SetInsideTemperature", temp |-> t]
EnableController(b) == [type |-> "EnableController", enabled |-> b]
RegisterMeasurement(place, m) ==
    [type |-> "RegisterMeasurement", place |-> place, measurement |-> m]
RegisterHeaterStateChange(id, s) ==
    [type |-> "RegisterHeaterStateChange", heater_id |-> id, state |-> s]

Payload(text, json) == [text |-> text, json |-> json]

\* Packet::Publish, any other incoming packet, an Outgoing notification and
\* a poll() error.
Publish(topic, payload) ==
    [kind |-> "Incoming", packet |-> "Publish", topic |-> topic,
     payload |-> payload]
OtherPacket == [kind |-> "Incoming", packet |-> "PubAck"]
OutgoingEvent == [kind |-> "Outgoing"]
PollError == [kind |-> "Error"]

(***************************************************************************)
(* Controller::parse_measurement: an unanchored regex search for           *)
(* measurement/(inside|outside), then the payload.                         *)
(***************************************************************************)
parse_measurement(topic, payload) ==
    LET hits == MatchesAt(topic, <<"measurement/">>, 1,
                          {"inside", "outside"}, <<>>)
    IN  IF hits = {} THEN Err("Received measurement from unknown place")
        ELSE
            LET place == <<topic[Min(hits) + 1]>>
                m == DeserializeMeasurement(payload.json)
            IN  IF m.ok THEN Ok(<<place, m.v>>)
                ELSE Err("Failed to deserialize payload")

(***************************************************************************)
(* Controller::parse_heater_state_change_message: an unanchored regex      *)
(* search for shellies/shelly1-([A-F0-9]{6})/relay/0, then the payload.    *)
(***************************************************************************)
parse_heater_state_change_message(topic, payload) ==
    LET hits == MatchesAt(topic, <<"shellies/", "shelly1-">>, 6, UpperHex,
                          <<"/relay/0">>)
    IN  IF hits = {} THEN Err("Received state from unknown heater")
        ELSE
            LET heater_id == SubSeq(topic, Min(hits) + 2, Min(hits) + 7)
                parsed == HeaterStateFromStr(payload.text)
            IN  IF parsed.ok THEN Ok(<<heater_id, parsed.v>>)
                ELSE Err("payload is not a valid state")

(***************************************************************************)
(* Controller::handle_incoming_message: Result<Option<Action>>.            *)
(***************************************************************************)
handle_incoming_message(message) ==
    IF message.packet # "Publish" THEN Ok(None)
    ELSE
        LET topic == message.topic
            payload == message.payload
        IN  IF topic = <<"temperature/", "set">> THEN
                LET t == parse_float_payload(payload.text)
                IN  IF t.ok THEN Ok(Some(SetDesiredTemperature(t.v))) ELSE t
            ELSE IF topic = <<"temperature/", "inside">> THEN
                LET t == parse_float_payload(payload.text)
                IN  IF t.ok THEN Ok(Some(SetInsideTemperature(t.v))) ELSE t
            ELSE IF topic = <<"temperature/", "auto">>
                    /\ payload.text = <<"true">> THEN
                Ok(Some(EnableController(TRUE)))
            ELSE IF topic = <<"temperature/", "auto">>
                    /\ payload.text = <<"false">> THEN
                Ok(Some(EnableController(FALSE)))
            ELSE IF StartsWith(topic, <<"measurement/">>) THEN
                LET r == parse_measurement(topic, payload)
                IN  IF r.ok THEN Ok(Some(RegisterMeasurement(r.v[1], r.v[2])))
                    ELSE r
            ELSE IF StartsWith(topic, <<"shellies/">>) THEN
                LET r == parse_heater_state_change_message(topic, payload)
                IN  IF r.ok
                    THEN Ok(Some(RegisterHeaterStateChange(r.v[1], r.v[2])))
                    ELSE r
            ELSE Ok(None)

\* The write handle_incoming_message makes to the Controller's own State.
ControllerEnabledAfter(enabled, message) ==
    IF message.packet = "Publish"
        /\ message.topic = <<"temperature/", "auto">>
        /\ message.payload.text \in {<<"true">>, <<"false">>}
    THEN message.payload.text = <<"true">>
    ELSE enabled

\* One turn of Controller::run_until_completion's match on poll(): the
\* Action to send, if any, and whether an error was logged.
Notified(ev) ==
    IF ev.kind = "Error" THEN [action |-> None, error |-> TRUE]
    ELSE IF ev.kind = "Outgoing" THEN [action |-> None, error |-> FALSE]
    ELSE LET r == handle_incoming_message(ev)
         IN  IF r.ok THEN [action |-> r.v, error |-> FALSE]
             ELSE [action |-> None, error |-> TRUE]

(***************************************************************************)
(* State and State::get_heater_state.                                      *)
(***************************************************************************)
StateDefault ==
    [enabled |-> FALSE, desired_temperature |-> None,
     current_temperature |-> None]

\* A decision taken with >= in place of >.
get_heater_state_ge(st) ==
    IF st.desired_temperature.some /\ st.current_temperature.some
    THEN Some(IF st.desired_temperature.v >= st.current_temperature.v
              THEN "On" ELSE "Off")
    ELSE None

get_heater_state(st) ==
    IF st.desired_temperature.some /\ st.current_temperature.some
    THEN Some(IF st.desired_temperature.v > st.current_temperature.v
              THEN "On" ELSE "Off")
    ELSE None

\* The decision step without its `if !self.state.enabled` return.
check_temperature_ungated(st) == get_heater_state(st)

\* Executor::check_temperature up to its call of set_heaters_state: the
\* state to broadcast, if any.
check_temperature(st) ==
    IF ~st.enabled THEN None ELSE get_heater_state(st)

\* The command published without the retained flag.
CommandPublish_unretained(heater, s) ==
    [topic |-> <<"shellies/", "shelly1-">> \o heater
                   \o <<"/relay/0", "/command">>,
     qos |-> "AtLeastOnce", retain |-> FALSE,
     payload |-> HeaterStateToString(s)]

\* The arguments of the publish call set_heaters_state makes for `heater`.
CommandPublish(heater, s) ==
    [topic |-> <<"shellies/", "shelly1-">> \o heater
                   \o <<"/relay/0", "/command">>,
     qos |-> "AtLeastOnce", retain |-> TRUE,
     payload |-> HeaterStateToString(s)]

\* f64::floor before the cast: towards minus infinity.
AsI64_floor(x) == x \div 10

\* f64 as i64: the fraction is dropped, towards zero.
AsI64(x) == IF x >= 0 THEN x \div 10 ELSE 0 - ((0 - x) \div 10)

\* The persistence call handle_action makes for a Register* action.
DbCall(action) ==
    IF action.type = "RegisterMeasurement"
    THEN [fn |-> "insert_reading", location |-> action.place,
          temperature |-> AsI64(action.measurement.temperature),
          humidity |-> AsI64(action.measurement.humidity)]
    ELSE [fn |-> "insert_heater_state", heater_id |-> action.heater_id,
          state |-> action.state]

(***************************************************************************)
(* The publishes the broker may deliver.                                   *)
(***************************************************************************)
P_21_5 == Payload(<<"2", "1", ".", "5">>, JNum(215))
P_19_0 == Payload(<<"1", "9", ".", "0">>, JNum(190))
P_19 == Payload(<<"1", "9">>, JNum(190))
P_m3_5 == Payload(<<"-", "3", ".", "5">>, JNum(-35))
P_abc == Payload(<<"a", "b", "c">>, JInvalid)
P_empty == Payload(<<>>, JInvalid)
P_true == Payload(<<"true">>, JBool)
P_false == Payload(<<"false">>, JBool)
P_on == Payload(<<"on">>, JInvalid)
P_off == Payload(<<"off">>, JInvalid)
P_ON == Payload(<<"ON">>, JInvalid)

\* {"temperature":22.1,"humidity":40.0}
P_meas_22_1 ==
    Payload(<<"{measurement 22.1 40.0}">>,
            JObj(<<Member("temperature", JNum(221)),
                   Member("humidity", JNum(400))>>))
\* {"humidity":40.5,"temperature":22.7,"battery":3}
P_meas_22_7 ==
    Payload(<<"{measurement 22.7 40.5 battery}">>,
            JObj(<<Member("humidity", JNum(405)),
                   Member("temperature", JNum(227)),
                   Member("battery", JNum(30))>>))
\* {"temperature":-3.5,"humidity":99.9}
P_meas_m3_5 ==
    Payload(<<"{measurement -3.5 99.9}">>,
            JObj(<<Member("temperature", JNum(-35)),
                   Member("humidity", JNum(999))>>))
\* {"temperature":22.1}
P_meas_no_humidity ==
    Payload(<<"{measurement 22.1}">>,
            JObj(<<Member("temperature", JNum(221))>>))
\* {"temperature":"22.1","humidity":40.0}
P_meas_string ==
    Payload(<<"{measurement string 40.0}">>,
            JObj(<<Member("temperature", JStr),
                   Member("humidity", JNum(400))>>))
\* {"temperature":22.1,
P_meas_cut == Payload(<<"{measurement cut">>, JInvalid)

FloatPayloads == {P_21_5, P_19_0, P_19, P_m3_5, P_abc, P_empty}
FlagPayloads == {P_true, P_false}
StatePayloads == {P_on, P_off, P_ON}
MeasurementPayloads ==
    {P_meas_22_1, P_meas_22_7, P_meas_m3_5, P_meas_no_humidity,
     P_meas_string, P_meas_cut}
Payloads ==
    FloatPayloads \cup FlagPayloads \cup StatePayloads
        \cup MeasurementPayloads

RelayTopic(id) == <<"shellies/", "shelly1-">> \o id \o <<"/relay/0">>

\* Ids seen on the bus: the registered heaters, an unregistered relay, a
\* lower-case id and an id of five characters.
UnregisteredId == <<"0", "A", "1", "B", "2", "E">>
LowerCaseId == <<"c", "4", "4", "0", "2", "d">>
ShortId == <<"C", "4", "4", "0", "2">>

Topics ==
    { <<"temperature/", "set">>, <<"temperature/", "inside">>,
      <<"temperature/", "auto">>, <<"temperature/", "outside">>,
      <<"temperature/", "set", "X">>,
      <<"measurement/", "inside">>, <<"measurement/", "outside">>,
      <<"measurement/", "kitchen">>, <<"measurement/", "inside", "X">>,
      <<"X", "measurement/", "inside">>,
      RelayTopic(HEATERS[1]), RelayTopic(HEATERS[3]),
      RelayTopic(UnregisteredId), RelayTopic(LowerCaseId),
      RelayTopic(ShortId),
      RelayTopic(HEATERS[1]) \o <<"/command">>,
      <<"shellies/", "shellyplug-">> \o HEATERS[1] \o <<"/relay/0">>,
      <<"foo/", "bar">> }

\* Every notification of the model: each topic with each payload, a packet
\* that is no publish, an outgoing notification and a poll error.
AllEvents ==
    {Publish(t, p) : t \in Topics, p \in Payloads}
        \cup {OtherPacket, OutgoingEvent, PollError}

\* The notifications that drive the control loop.
ControlEvents ==
    { Publish(<<"temperature/", "set">>, P_21_5),
      Publish(<<"temperature/", "set">>, P_19),
      Publish(<<"temperature/", "inside">>, P_19_0),
      Publish(<<"temperature/", "inside">>, P_21_5),
      Publish(<<"temperature/", "auto">>, P_true),
      Publish(<<"temperature/", "auto">>, P_false),
      Publish(<<"measurement/", "inside">>, P_meas_22_1) }

FollowEvents ==
    { Publish(<<"temperature/", "set">>, P_21_5),
      Publish(<<"temperature/", "inside">>, P_19_0),
      Publish(<<"temperature/", "auto">>, P_true),
      Publish(<<"measurement/", "outside">>, P_meas_22_7) }

\* The k-th notification of a burst of measurements.
BurstEvents(k) ==
    IF k % 2 = 1
    THEN {Publish(<<"measurement/", "inside">>, P_meas_22_1)}
    ELSE {Publish(<<"measurement/", "outside">>, P_meas_22_7)}

\* What a poll may yield while commands are on their way out: the next
\* temperature from inside, or a request leaving the client's buffer.
TransportEvents ==
    {Publish(<<"temperature/", "inside">>, P_19_0), OutgoingEvent}

(***************************************************************************)
(* State.                                                                  *)
(***************************************************************************)
VARIABLES
    feed,            \* per coming poll(), the notifications it may yield
    ipc,             \* Controller: "poll" or "send" (awaiting tx.send)
    held,            \* Controller: the Action tx.send is called with
    cstate,          \* Controller.state
    lastPoll,        \* the last notification polled and its outcome
    errors,          \* tracing::error! lines the Controller has written
    queue,           \* the mpsc channel's buffer
    requests,        \* requests waiting in the MQTT client's buffer
    sent,            \* every Action tx.send has enqueued, in order
    taken,           \* every Action rx.recv has returned, in order
    epc,             \* Executor: "recv", "publish", "lock" or "insert"
    state,           \* Executor.state
    target,          \* set_heaters_state's argument while it runs
    hidx,            \* set_heaters_state's position in HEATERS
    pubs,            \* publish calls made for the Action in hand
    dbcalls,         \* persistence calls made for the Action in hand
    failed,          \* handle_action returned Err for the Action in hand
    dbLocked,        \* the Mutex around the Database is held
    history,         \* rows of table history
    heater_history   \* rows of table heater_history

vars ==
    <<feed, ipc, held, cstate, lastPoll, errors, queue, requests, sent,
      taken, epc, state, target, hidx, pubs, dbcalls, failed, dbLocked, history,
      heater_history>>

ingestorVars == <<feed, ipc, held, cstate, lastPoll, errors>>
executorVars ==
    <<taken, epc, state, target, hidx, pubs, dbcalls, failed, dbLocked,
      history, heater_history>>

NoPoll == [polled |-> FALSE]

\* Controller::new, Executor::new, channel(10), an empty database, and the
\* one Subscribe request of subscribe_many waiting for the first poll.
InitProgram ==
    /\ ipc = "poll"
    /\ held = None
    /\ cstate = StateDefault
    /\ lastPoll = NoPoll
    /\ errors = 0
    /\ queue = <<>>
    /\ requests = 1
    /\ sent = <<>>
    /\ taken = <<>>
    /\ epc = "recv"
    /\ state = StateDefault
    /\ target = None
    /\ hidx = 1
    /\ pubs = <<>>
    /\ dbcalls = <<>>
    /\ failed = FALSE
    /\ dbLocked = FALSE
    /\ history = <<>>
    /\ heater_history = <<>>

Init ==
    /\ feed = [k \in 1..MaxEvents |-> ControlEvents]
    /\ InitProgram

InitParse ==
    /\ feed = <<AllEvents>> \o [k \in 1..MaxParseEvents |-> FollowEvents]
    /\ InitProgram

InitBurst ==
    /\ feed = << {Publish(<<"temperature/", "set">>, P_21_5)},
                 {Publish(<<"temperature/", "inside">>, P_19_0)},
                 {Publish(<<"temperature/", "auto">>, P_true)} >>
                  \o [k \in 1..(QueueCap + MaxBurstExtra) |-> BurstEvents(k)]
    /\ InitProgram

\* The temperatures from inside it takes to fill the channel behind an
\* Executor that fills the client's buffer: the Actions whose broadcasts,
\* after the first one, fill the buffer, then QueueCap Actions waiting and
\* one held.
TransportBurst ==
    [k \in 1..((RequestCap \div Len(HEATERS)) + QueueCap + 1) |->
        {Publish(<<"temperature/", "inside">>, P_19_0)}]

\* The Subscribe goes out, a measurement and the three messages that start
\* the control loop come in, then the burst, then MaxTransportExtra polls
\* that may also find a request to take out of the client's buffer.
InitTransport ==
    /\ feed = << {OutgoingEvent},
                 {Publish(<<"measurement/", "inside">>, P_meas_22_1)},
                 {Publish(<<"temperature/", "set">>, P_21_5)},
                 {Publish(<<"temperature/", "inside">>, P_19_0)},
                 {Publish(<<"temperature/", "auto">>, P_true)} >>
                  \o TransportBurst
                  \o [k \in 1..MaxTransportExtra |-> TransportEvents]
    /\ InitProgram

(***************************************************************************)
(* Controller::run_until_completion.                                       *)
(***************************************************************************)
\* A Controller that consults its own enabled flag: a temperature/auto
\* message that repeats the flag it has stored yields no Action.
Poll_dedupe ==
    /\ ipc = "poll"
    /\ feed # <<>>
    /\ \E ev \in Head(feed) :
          LET m == Notified(ev)
              n == IF /\ m.action.some
                      /\ m.action.v.type = "EnableController"
                      /\ m.action.v.enabled = cstate.enabled
                   THEN [action |-> None, error |-> FALSE] ELSE m
          IN  /\ feed' = Tail(feed)
              /\ lastPoll' = [polled |-> TRUE, ev |-> ev, action |-> n.action,
                              error |-> n.error]
              /\ cstate' =
                    IF ev.kind = "Incoming"
                    THEN [cstate EXCEPT
                            !.enabled = ControllerEnabledAfter(@, ev)]
                    ELSE cstate
              /\ errors' = IF n.error THEN errors + 1 ELSE errors
              /\ held' = n.action
              /\ ipc' = IF n.action.some THEN "send" ELSE "poll"
              /\ requests' = IF ev.kind = "Outgoing" /\ requests > 0
                              THEN requests - 1 ELSE requests
    /\ UNCHANGED <<queue, sent>>
    /\ UNCHANGED executorVars

\* eventloop.poll().await returns and the notification is matched; a parsed
\* Action is held for tx.send.  An Outgoing notification is the event loop
\* taking the next request out of the client's buffer (or, the buffer being
\* empty, its keep-alive ping).
Poll ==
    /\ ipc = "poll"
    /\ feed # <<>>
    /\ \E ev \in Head(feed) :
          LET n == Notified(ev)
          IN  /\ feed' = Tail(feed)
              /\ lastPoll' = [polled |-> TRUE, ev |-> ev, action |-> n.action,
                              error |-> n.error]
              /\ cstate' =
                    IF ev.kind = "Incoming"
                    THEN [cstate EXCEPT
                            !.enabled = ControllerEnabledAfter(@, ev)]
                    ELSE cstate
              /\ errors' = IF n.error THEN errors + 1 ELSE errors
              /\ held' = n.action
              /\ ipc' = IF n.action.some THEN "send" ELSE "poll"
              /\ requests' = IF ev.kind = "Outgoing" /\ requests > 0
                              THEN requests - 1 ELSE requests
    /\ UNCHANGED <<queue, sent>>
    /\ UNCHANGED executorVars

\* tx.try_send in place of tx.send: a full channel drops the Action.
Send_try ==
    /\ ipc = "send"
    /\ queue' = IF Len(queue) < QueueCap THEN Append(queue, held.v) ELSE queue
    /\ sent' = IF Len(queue) < QueueCap THEN Append(sent, held.v) ELSE sent
    /\ held' = None
    /\ ipc' = "poll"
    /\ UNCHANGED <<feed, cstate, lastPoll, errors, requests>>
    /\ UNCHANGED executorVars

\* tx.send(action).await completes once the channel has room.
Send ==
    /\ ipc = "send"
    /\ Len(queue) < QueueCap
    /\ queue' = Append(queue, held.v)
    /\ sent' = Append(sent, held.v)
    /\ held' = None
    /\ ipc' = "poll"
    /\ UNCHANGED <<feed, cstate, lastPoll, errors, requests>>
    /\ UNCHANGED executorVars

(***************************************************************************)
(* Executor::run_until_completion and Executor::handle_action.             *)
(***************************************************************************)
ControlTypes ==
    {"SetDesiredTemperature", "SetInsideTemperature", "EnableController"}

\* A measurement from inside also taken as the current temperature.
StateAfter_measurement(st, action) ==
    IF action.type = "SetDesiredTemperature"
    THEN [st EXCEPT !.desired_temperature = Some(action.temp)]
    ELSE IF action.type = "SetInsideTemperature"
    THEN [st EXCEPT !.current_temperature = Some(action.temp)]
    ELSE IF action.type = "EnableController"
    THEN [st EXCEPT !.enabled = action.enabled]
    ELSE IF action.type = "RegisterMeasurement"
    THEN [st EXCEPT
            !.current_temperature = Some(action.measurement.temperature)]
    ELSE st

\* Disabling the controller also forgets the temperatures.
StateAfter_disable_clears(st, action) ==
    IF action.type = "SetDesiredTemperature"
    THEN [st EXCEPT !.desired_temperature = Some(action.temp)]
    ELSE IF action.type = "SetInsideTemperature"
    THEN [st EXCEPT !.current_temperature = Some(action.temp)]
    ELSE IF action.type = "EnableController"
    THEN IF action.enabled THEN [st EXCEPT !.enabled = TRUE]
         ELSE StateDefault
    ELSE st

\* The write handle_action makes to self.state before anything is awaited.
StateAfter(st, action) ==
    IF action.type = "SetDesiredTemperature"
    THEN [st EXCEPT !.desired_temperature = Some(action.temp)]
    ELSE IF action.type = "SetInsideTemperature"
    THEN [st EXCEPT !.current_temperature = Some(action.temp)]
    ELSE IF action.type = "EnableController"
    THEN [st EXCEPT !.enabled = action.enabled]
    ELSE st

\* Where handle_action first awaits for `action`, the state being `st`:
\* the first publish, the database lock, or nowhere (it returns Ok).
FirstAwait(st, action) ==
    IF action.type \in ControlTypes
    THEN IF check_temperature(st).some THEN "publish" ELSE "recv"
    ELSE "lock"

\* A channel that hands out its newest Action first.
RecvFrom_newest(q) == q[Len(q)]

\* The Action rx.recv() returns from the buffer `q`.
RecvFrom(q) == Head(q)

\* A debounced Executor: an Action that leaves the state as it was is not
\* followed by the decision step.
Recv_debounced ==
    /\ epc = "recv"
    /\ queue # <<>>
    /\ LET action == RecvFrom(queue)
           st == StateAfter(state, action)
           next == IF action.type \in ControlTypes /\ st = state
                   THEN "recv" ELSE FirstAwait(st, action)
       IN  /\ queue' = Tail(queue)
           /\ taken' = Append(taken, action)
           /\ state' = st
           /\ epc' = next
           /\ target' = IF next = "publish"
                        THEN check_temperature(st) ELSE None
    /\ hidx' = 1
    /\ pubs' = <<>>
    /\ dbcalls' = <<>>
    /\ failed' = FALSE
    /\ UNCHANGED <<dbLocked, history, heater_history, sent, requests>>
    /\ UNCHANGED ingestorVars

\* The decision step run before the write to self.state: the broadcast is
\* decided from the values stored before the Action.
Recv_decide_first ==
    /\ epc = "recv"
    /\ queue # <<>>
    /\ LET action == RecvFrom(queue)
           st == StateAfter(state, action)
       IN  /\ queue' = Tail(queue)
           /\ taken' = Append(taken, action)
           /\ state' = st
           /\ epc' = FirstAwait(state, action)
           /\ target' = IF FirstAwait(state, action) = "publish"
                        THEN check_temperature(state) ELSE None
    /\ hidx' = 1
    /\ pubs' = <<>>
    /\ dbcalls' = <<>>
    /\ failed' = FALSE
    /\ UNCHANGED <<dbLocked, history, heater_history, sent, requests>>
    /\ UNCHANGED ingestorVars

\* rx.recv().await returns an Action and handle_action runs to its first
\* await.
Recv ==
    /\ epc = "recv"
    /\ queue # <<>>
    /\ LET action == RecvFrom(queue)
           st == StateAfter(state, action)
       IN  /\ queue' = Tail(queue)
           /\ taken' = Append(taken, action)
           /\ state' = st
           /\ epc' = FirstAwait(st, action)
           /\ target' = IF FirstAwait(st, action) = "publish"
                        THEN check_temperature(st) ELSE None
    /\ hidx' = 1
    /\ pubs' = <<>>
    /\ dbcalls' = <<>>
    /\ failed' = FALSE
    /\ UNCHANGED <<dbLocked, history, heater_history, sent, requests>>
    /\ UNCHANGED ingestorVars

\* `?` on handle_action in the loop: an error ends the Executor.
AfterPublish_stop(ok, i) ==
    IF ~ok THEN "stopped"
    ELSE IF i < Len(HEATERS) THEN "publish" ELSE "recv"

\* `?` left off the publish: a failed publish is followed by the next heater.
AfterPublish_continue(ok, i) ==
    IF i < Len(HEATERS) THEN "publish" ELSE "recv"

\* Where set_heaters_state goes after the publish for heater `i` returned:
\* the next heater, or back to the loop (all sent, or `?` on the error).
AfterPublish(ok, i) ==
    IF ok /\ i < Len(HEATERS) THEN "publish" ELSE "recv"

\* mqtt_client.publish(...).await returns for the heater in turn: with Ok
\* once the request has been put into the client's buffer, which takes room
\* in it, or with Err.
PublishHeater ==
    /\ epc = "publish"
    /\ \E ok \in BOOLEAN :
          /\ ok => requests < RequestCap
          /\ requests' = IF ok THEN requests + 1 ELSE requests
          /\ pubs' = Append(pubs, CommandPublish(HEATERS[hidx], target.v))
          /\ epc' = AfterPublish(ok, hidx)
          /\ hidx' = IF AfterPublish(ok, hidx) = "publish"
                      THEN hidx + 1 ELSE 1
          /\ target' = IF AfterPublish(ok, hidx) = "publish"
                        THEN target ELSE None
          /\ failed' = ~ok
    /\ UNCHANGED <<taken, state, dbcalls, dbLocked, history, heater_history>>
    /\ UNCHANGED <<queue, sent>>
    /\ UNCHANGED ingestorVars

\* self.db.lock().await returns the guard.
DbLock ==
    /\ epc = "lock"
    /\ ~dbLocked
    /\ dbLocked' = TRUE
    /\ epc' = "insert"
    /\ UNCHANGED <<taken, state, target, hidx, pubs, dbcalls, failed,
                   history, heater_history>>
    /\ UNCHANGED <<queue, sent, requests>>
    /\ UNCHANGED ingestorVars

\* The bind order of temperature and humidity exchanged in the INSERT.
RowOf_swapped(call) ==
    IF call.fn = "insert_reading"
    THEN [location |-> call.location, temperature |-> call.humidity,
          humidity |-> call.temperature]
    ELSE [shelly_id |-> call.heater_id,
          is_active |-> IF call.state = "On" THEN 1 ELSE 0]

\* The row Database::insert_reading / insert_heater_state writes for `call`
\* (the timestamp column is left out).
RowOf(call) ==
    IF call.fn = "insert_reading"
    THEN [location |-> call.location, temperature |-> call.temperature,
          humidity |-> call.humidity]
    ELSE [shelly_id |-> call.heater_id,
          is_active |-> IF call.state = "On" THEN 1 ELSE 0]

\* The guard bound to a variable that `?` leaves behind: a failed insert
\* returns with the lock still held.
DbInsert_guard_kept ==
    /\ epc = "insert"
    /\ LET call == DbCall(taken[Len(taken)])
       IN  \E ok \in BOOLEAN :
             /\ dbcalls' = Append(dbcalls, call)
             /\ history' =
                   IF ok /\ call.fn = "insert_reading"
                   THEN Append(history, RowOf(call)) ELSE history
             /\ heater_history' =
                   IF ok /\ call.fn = "insert_heater_state"
                   THEN Append(heater_history, RowOf(call))
                   ELSE heater_history
             /\ failed' = ~ok
             /\ dbLocked' = ~ok
    /\ epc' = "recv"
    /\ UNCHANGED <<taken, state, target, hidx, pubs>>
    /\ UNCHANGED <<queue, sent, requests>>
    /\ UNCHANGED ingestorVars

\* insert_reading(...).await / insert_heater_state(...).await returns; the
\* guard is dropped at the end of the statement.
DbInsert ==
    /\ epc = "insert"
    /\ LET call == DbCall(taken[Len(taken)])
       IN  \E ok \in BOOLEAN :
             /\ dbcalls' = Append(dbcalls, call)
             /\ history' =
                   IF ok /\ call.fn = "insert_reading"
                   THEN Append(history, RowOf(call)) ELSE history
             /\ heater_history' =
                   IF ok /\ call.fn = "insert_heater_state"
                   THEN Append(heater_history, RowOf(call))
                   ELSE heater_history
             /\ failed' = ~ok
    /\ dbLocked' = FALSE
    /\ epc' = "recv"
    /\ UNCHANGED <<taken, state, target, hidx, pubs>>
    /\ UNCHANGED <<queue, sent, requests>>
    /\ UNCHANGED ingestorVars

Next == Poll \/ Send \/ Recv \/ PublishHeater \/ DbLock \/ DbInsert

\* The control loop: MaxEvents notifications drawn from ControlEvents.
Spec == Init /\ [][Next]_vars

\* Classification: one notification out of AllEvents, then MaxParseEvents
\* more out of FollowEvents.
SpecParse == InitParse /\ [][Next]_vars

\* A burst that fills the channel.
SpecBurst == InitBurst /\ [][Next]_vars

\* Temperatures coming in while commands go out through the MQTT client.
SpecTransport == InitTransport /\ [][Next]_vars

\* The same, with both spawned tasks scheduled fairly: a tx.send with room
\* in the channel and an rx.recv with an Action in it complete, the lock is
\* granted when free, and every publish and insert call returns.
FairTransport ==
    /\ InitTransport
    /\ [][Next]_vars
    /\ WF_vars(Send)
    /\ WF_vars(Recv)
    /\ WF_vars(PublishHeater)
    /\ WF_vars(DbLock)
    /\ WF_vars(DbInsert)

TypeOK ==
    /\ ipc \in {"poll", "send"}
    /\ epc \in {"recv", "publish", "lock", "insert"}
    /\ Len(queue) <= QueueCap
    /\ requests \in 0..RequestCap
    /\ hidx \in 1..Len(HEATERS)

(***************************************************************************)
(* Properties.                                                             *)
(***************************************************************************)
Last(q) == q[Len(q)]

IsPrefix(p, q) == Len(p) <= Len(q) /\ SubSeq(q, 1, Len(p)) = p

\* The Executor is handling, or has just handled, a control Action.
InControl == taken # <<>> /\ Last(taken).type \in ControlTypes

\* The Executor went on to broadcast for the Action in hand.
Decided == epc = "publish" \/ pubs # <<>>

\* C1: the decision step decides exactly when the controller is enabled and
\* both temperatures are present, and then commands On when desired >
\* current and Off otherwise (so Off when they are equal); every publish of
\* the broadcast carries that command.
C1_Decision ==
    InControl =>
        LET d == state.desired_temperature
            c == state.current_temperature
        IN  /\ Decided <=> (state.enabled /\ d.some /\ c.some)
            /\ Decided =>
                  LET on == d.v > c.v
                  IN  /\ epc = "publish" =>
                            target = Some(IF on THEN "On" ELSE "Off")
                      /\ \A i \in 1..Len(pubs) :
                            pubs[i].payload =
                                IF on THEN <<"on">> ELSE <<"off">>

\* C1 witness: enabled with desired = current, and Off is being broadcast.
C1_Witness ==
    /\ InControl
    /\ state.enabled
    /\ state.desired_temperature.some
    /\ state.desired_temperature = state.current_temperature
    /\ Len(pubs) = 2
    /\ target = Some("Off")

\* C2: the Actions taken from the channel are a prefix of the Actions sent
\* into it, and what was sent and not yet taken is exactly the channel's
\* content, in order: no reordering, no loss, no duplicate.
C2_Fifo ==
    /\ IsPrefix(taken, sent)
    /\ sent = taken \o queue

\* C2 witness: two different Actions taken while two more wait in order.
C2_Witness ==
    /\ Len(taken) = 2
    /\ taken[1] # taken[2]
    /\ Len(queue) = 2
    /\ queue[1] # queue[2]

\* C3: the channel never holds more than QueueCap Actions, and an Action
\* the Controller holds for tx.send stays held, with no further poll, until
\* the channel has room, and then is enqueued: it is never dropped.
C3_Backpressure ==
    /\ [](Len(queue) <= QueueCap)
    /\ [][held.some =>
            \/ /\ held' = held
               /\ ipc' = "send"
               /\ feed' = feed
            \/ /\ Len(queue) < QueueCap
               /\ queue' = Append(queue, held.v)
               /\ feed' = feed]_vars

\* C3 witness: the channel is full and the Controller is suspended in
\* tx.send with notifications still to come.
C3_Witness ==
    /\ Len(queue) = QueueCap
    /\ ipc = "send"
    /\ held.some
    /\ feed # <<>>

\* Hexadecimal digits of either case.
HexChars == UpperHex \cup {"a", "b", "c", "d", "e", "f"}

IsRelayTopic(t) ==
    /\ Len(t) = 9
    /\ SubSeq(t, 1, 2) = <<"shellies/", "shelly1-">>
    /\ \A k \in 3..8 : t[k] \in HexChars
    /\ t[9] = "/relay/0"

\* The topics the dispatch table names.
TableTopic(t) ==
    \/ t \in { <<"temperature/", "set">>, <<"temperature/", "inside">>,
               <<"temperature/", "auto">>, <<"measurement/", "inside">>,
               <<"measurement/", "outside">> }
    \/ IsRelayTopic(t)

PolledPublish ==
    /\ lastPoll.polled
    /\ lastPoll.ev.kind = "Incoming"
    /\ lastPoll.ev.packet = "Publish"

\* C4: a publish yields an Action only on a topic of the dispatch table
\* (temperature/auto only with payload "true" or "false"), and a publish on
\* any other topic yields no Action and no error.
C4_Classification ==
    PolledPublish =>
        LET t == lastPoll.ev.topic
            p == lastPoll.ev.payload
        IN  /\ lastPoll.action.some =>
                  /\ TableTopic(t)
                  /\ t = <<"temperature/", "auto">> =>
                        p.text \in {<<"true">>, <<"false">>}
            /\ ~TableTopic(t) =>
                  ~lastPoll.action.some /\ ~lastPoll.error

\* The publish the claim expects for the i-th registered heater.
ExpectedCommand(i, text) ==
    [topic |-> <<"shellies/", "shelly1-">> \o HEATERS[i]
                   \o <<"/relay/0", "/command">>,
     qos |-> "AtLeastOnce", retain |-> TRUE, payload |-> <<text>>]

\* What the Controller makes of temperature/set d, temperature/inside c,
\* temperature/auto "true", for every pair of payloads with d > c.
ScenarioActions ==
    LET Act(topic, p) == Notified(Publish(topic, p)).action
        a3 == Act(<<"temperature/", "auto">>, P_true)
    IN  { <<Act(<<"temperature/", "set">>, pd).v,
            Act(<<"temperature/", "inside">>, pc).v, a3.v>> :
          <<pd, pc>> \in
              { x \in FloatPayloads \X FloatPayloads :
                  /\ Act(<<"temperature/", "set">>, x[1]).some
                  /\ Act(<<"temperature/", "inside">>, x[2]).some
                  /\ Act(<<"temperature/", "set">>, x[1]).v.temp
                        > Act(<<"temperature/", "inside">>, x[2]).v.temp } }

\* C5: from the initial state, temperature/set d, temperature/inside c with
\* d > c, then temperature/auto "true": nothing is published for the first
\* two, and when every publish succeeds the third ends with exactly three
\* publishes, one per registered heater in registry order, on its command
\* topic, with payload "on", retained.
C5_Scenario ==
    \A a \in ScenarioActions :
        /\ taken \in {<<a[1]>>, <<a[1], a[2]>>} => pubs = <<>> /\ epc = "recv"
        /\ taken = a =>
              /\ Len(pubs) <= 3
              /\ (epc = "recv" /\ ~failed) =>
                    pubs = [i \in 1..3 |-> ExpectedCommand(i, "on")]

\* C5 witness: the three messages were handled, every publish succeeded.
C5_Witness ==
    /\ taken = << SetDesiredTemperature(215), SetInsideTemperature(190),
                  EnableController(TRUE) >>
    /\ epc = "recv"
    /\ ~failed
    /\ Len(pubs) = 3

RegisterTypes == {"RegisterMeasurement", "RegisterHeaterStateChange"}

\* The Executor is handling, or has just handled, a Register* Action.
InRegister == taken # <<>> /\ Last(taken).type \in RegisterTypes

\* C6: handling RegisterMeasurement or RegisterHeaterStateChange makes
\* exactly one persistence call (insert_reading, respectively
\* insert_heater_state), publishes nothing, and leaves enabled,
\* desired_temperature and current_temperature as they were, whether the
\* call succeeds or fails.
C6_Frame ==
    /\ [](InRegister =>
            /\ pubs = <<>>
            /\ epc # "publish"
            /\ epc # "recv" => dbcalls = <<>>
            /\ epc = "recv" =>
                  /\ Len(dbcalls) = 1
                  /\ dbcalls[1].fn =
                        IF Last(taken).type = "RegisterMeasurement"
                        THEN "insert_reading" ELSE "insert_heater_state")
    /\ [][InRegister' => state' = state]_vars

\* C6 witness: a measurement was handled, its insert failed, and the
\* control state holds what an earlier message set.
C6_Witness ==
    /\ InRegister
    /\ Last(taken).type = "RegisterMeasurement"
    /\ epc = "recv"
    /\ failed
    /\ Len(dbcalls) = 1
    /\ state # StateDefault

\* x tenths rounded to the nearest integer, halves away from zero.
RoundNearest(x) ==
    IF x >= 0 THEN (x + 5) \div 10 ELSE 0 - ((5 - x) \div 10)

\* x tenths with the fraction cut off: the integer part, towards zero.
TruncTowardZero(x) ==
    CHOOSE n \in -1000..1000 :
        IF x >= 0 THEN 10 * n <= x /\ x < 10 * n + 10
        ELSE 10 * n - 10 < x /\ x <= 10 * n

\* The row the last successful insert_reading wrote is (place, f(t), f(h))
\* for the RegisterMeasurement(place, {t, h}) just handled.
HistoryRowIs(f(_)) ==
    (/\ taken # <<>>
     /\ Last(taken).type = "RegisterMeasurement"
     /\ epc = "recv"
     /\ ~failed) =>
        /\ history # <<>>
        /\ Last(history) =
              [location |-> Last(taken).place,
               temperature |-> f(Last(taken).measurement.temperature),
               humidity |-> f(Last(taken).measurement.humidity)]

\* C7 as claimed: the history row written for RegisterMeasurement(place, m)
\* carries the place with m.temperature and m.humidity each rounded to the
\* nearest integer (22.7 stored as 23).
C7_Rounded == HistoryRowIs(RoundNearest)

\* C7 as amended: the history row written for RegisterMeasurement(place, m)
\* carries the place with m.temperature and m.humidity each cut to its
\* integer part, towards zero (22.1 and 22.7 stored as 22, -3.5 as -3).
C7_Truncated == HistoryRowIs(TruncTowardZero)

\* C7 witness: a measurement of 22.7 was stored as 22.
C7_Witness ==
    /\ taken # <<>>
    /\ Last(taken).type = "RegisterMeasurement"
    /\ Last(taken).measurement.temperature = 227
    /\ epc = "recv"
    /\ ~failed
    /\ Last(history).temperature = 22

IsUpperRelayTopic(t) ==
    IsRelayTopic(t) /\ \A k \in 3..8 : t[k] \in UpperHex

\* A publish of "on" or "off" on a relay topic satisfying `Rel` was made
\* into RegisterHeaterStateChange with the id and state of the message, and
\* that Action, once handled, made the one call insert_heater_state with the
\* Action's id and state.
RelayRecorded(Rel(_)) ==
    /\ (/\ PolledPublish
        /\ Rel(lastPoll.ev.topic)
        /\ lastPoll.ev.payload.text \in {<<"on">>, <<"off">>}) =>
          /\ ~lastPoll.error
          /\ lastPoll.action =
                Some([type |-> "RegisterHeaterStateChange",
                      heater_id |-> SubSeq(lastPoll.ev.topic, 3, 8),
                      state |-> IF lastPoll.ev.payload.text = <<"on">>
                                THEN "On" ELSE "Off"])
          /\ ipc = "send" => held = lastPoll.action
    /\ (/\ taken # <<>>
        /\ Last(taken).type = "RegisterHeaterStateChange"
        /\ epc = "recv") =>
          dbcalls = << [fn |-> "insert_heater_state",
                        heater_id |-> Last(taken).heater_id,
                        state |-> Last(taken).state] >>

\* C8 as claimed: for every id X of six hexadecimal digits and s in
\* {"on","off"}, a publish of s on shellies/shelly1-X/relay/0 yields
\* RegisterHeaterStateChange(X, s) and then one insert_heater_state(X, s).
C8_AnyHexId == RelayRecorded(IsRelayTopic)

\* C8 as amended: for every id X of six characters out of 0-9 and upper-case
\* A-F and s in {"on","off"}, a publish of s on shellies/shelly1-X/relay/0
\* yields RegisterHeaterStateChange(X, s) and then exactly one
\* insert_heater_state(X, s); X need not be a registered heater.
C8_UpperHexId == RelayRecorded(IsUpperRelayTopic)

\* C8 witness: "on" from a relay that is no registered heater was recorded.
C8_Witness ==
    /\ lastPoll = [polled |-> TRUE,
                   ev |-> Publish(RelayTopic(UnregisteredId), P_on),
                   action |-> Some(RegisterHeaterStateChange(UnregisteredId,
                                                             "On")),
                   error |-> FALSE]
    /\ \A i \in 1..Len(HEATERS) : HEATERS[i] # UnregisteredId
    /\ taken = <<RegisterHeaterStateChange(UnregisteredId, "On")>>
    /\ epc = "recv"
    /\ heater_history = <<[shelly_id |-> UnregisteredId, is_active |-> 1]>>

\* The notifications the Controller cannot turn into an Action: a poll
\* error, a notification that is no incoming publish, a temperature that is
\* no number, a measurement that is no {temperature, humidity} object, a
\* relay id that does not match, a state token other than "on" and "off".
Unparseable(ev) ==
    \/ ev.kind # "Incoming"
    \/ ev.packet # "Publish"
    \/ /\ ev.packet = "Publish"
       /\ \/ /\ ev.topic \in { <<"temperature/", "set">>,
                                <<"temperature/", "inside">> }
             /\ ev.payload \notin {P_21_5, P_19_0, P_19, P_m3_5}
          \/ /\ ev.topic \in { <<"measurement/", "inside">>,
                                <<"measurement/", "outside">> }
             /\ ev.payload \notin {P_meas_22_1, P_meas_22_7, P_meas_m3_5}
          \/ ev.topic \in {RelayTopic(LowerCaseId), RelayTopic(ShortId)}
          \/ /\ IsUpperRelayTopic(ev.topic)
             /\ ev.payload \notin {P_on, P_off}

\* What a valid message is expected to become.
ExpectedAction ==
    << <<Publish(<<"temperature/", "set">>, P_21_5),
         [type |-> "SetDesiredTemperature", temp |-> 215]>>,
       <<Publish(<<"temperature/", "inside">>, P_19_0),
         [type |-> "SetInsideTemperature", temp |-> 190]>>,
       <<Publish(<<"temperature/", "auto">>, P_true),
         [type |-> "EnableController", enabled |-> TRUE]>>,
       <<Publish(<<"measurement/", "outside">>, P_meas_22_7),
         [type |-> "RegisterMeasurement", place |-> <<"outside">>,
          measurement |-> [temperature |-> 227, humidity |-> 405]]>> >>

\* C9: the ingestion loop is always either polling or sending; a poll that
\* yields a notification it cannot turn into an Action (a payload that
\* fails to parse, a non-publish event, a poll error) enqueues nothing,
\* holds nothing, causes no persistence call and leaves the loop polling;
\* and a valid message, whatever came before it, is parsed into its Action
\* and held for the channel.
C9_IngestContinues ==
    /\ [](ipc \in {"poll", "send"} /\ (held.some <=> ipc = "send"))
    /\ [][feed' # feed =>
            /\ Unparseable(lastPoll'.ev) =>
                  /\ held' = None
                  /\ ipc' = "poll"
                  /\ queue' = queue
                  /\ sent' = sent
                  /\ dbcalls' = dbcalls
                  /\ history' = history
                  /\ heater_history' = heater_history
            /\ \A i \in 1..Len(ExpectedAction) :
                  lastPoll'.ev = ExpectedAction[i][1] =>
                      /\ held' = Some(ExpectedAction[i][2])
                      /\ ipc' = "send"]_vars

\* C9 witness: the first notification was logged as an error, nothing was
\* enqueued for it, and the valid message after it is held for the channel.
C9_Witness ==
    /\ errors = 1
    /\ Len(feed) = MaxParseEvents - 1
    /\ sent = <<>>
    /\ dbcalls = <<>>
    /\ held = Some(SetInsideTemperature(190))
    /\ ipc = "send"

\* C10: an error while handling an Action (a failed insert, a failed
\* publish) leaves the Executor at rx.recv: the Action is neither retried
\* nor put back, the control state is the one a success would have left,
\* and the next Action of the channel is the one taken next.
C10_ExecutorContinues ==
    /\ [](failed => epc = "recv" /\ (queue # <<>> => ENABLED Recv))
    /\ [][(failed' /\ ~failed) =>
            /\ queue' = queue
            /\ sent' = sent
            /\ taken' = taken
            /\ state' = state]_vars
    /\ [][epc # "recv" => state' = state]_vars
    /\ [][taken' # taken =>
            /\ epc = "recv"
            /\ taken' = Append(taken, Head(queue))
            /\ queue' = Tail(queue)]_vars

\* C10 witness: the insert for a first measurement failed (no row), and the
\* second measurement was then taken and stored.
C10_Witness ==
    /\ Len(taken) = 2
    /\ taken[1].type = "RegisterMeasurement"
    /\ taken[2].type = "RegisterMeasurement"
    /\ epc = "recv"
    /\ ~failed
    /\ Len(history) = 1

\* C11: within one decision the heaters are published to in registry order,
\* each at most once and all with the same command; a failed publish is the
\* last one of its decision (the Executor is back at rx.recv, nothing is
\* retried); and a publish is only ever made for a SetDesiredTemperature,
\* SetInsideTemperature or EnableController Action taken from the channel,
\* so after a failure the next publish follows a later such Action.
C11_AllOrAbandon ==
    /\ [](/\ Len(pubs) <= Len(HEATERS)
          /\ \A i \in 1..Len(pubs) :
                /\ pubs[i].topic = <<"shellies/", "shelly1-">> \o HEATERS[i]
                                      \o <<"/relay/0", "/command">>
                /\ pubs[i].payload = pubs[1].payload
          /\ epc = "publish" => hidx = Len(pubs) + 1
          /\ failed => epc = "recv"
          /\ Decided => InControl)
    /\ [][pubs' # pubs =>
            \/ /\ epc = "publish"
               /\ ~failed
               /\ Len(pubs') = Len(pubs) + 1
               /\ IsPrefix(pubs, pubs')
            \/ /\ taken' # taken
               /\ pubs' = <<>>]_vars
    /\ [][(failed /\ pubs # <<>> /\ taken' = taken) =>
            pubs' = pubs /\ epc' = "recv"]_vars

\* C11 witness: the publish to the second heater failed, the third heater
\* was not published to, and the Executor is back at rx.recv.
C11_Witness ==
    /\ InControl
    /\ failed
    /\ Len(pubs) = 2
    /\ epc = "recv"
    /\ Len(HEATERS) = 3

\* The step is insert_reading returning for the Action in hand.
InsertReadingReturns ==
    /\ epc = "insert"
    /\ epc' = "recv"
    /\ Last(taken).type = "RegisterMeasurement"

\* C12: table history starts empty and only grows by insert_reading: a
\* successful insert_reading(location, temperature, humidity) appends
\* exactly one row holding those three arguments and leaves the rows stored
\* before as they were (and heater_history alone); a failed one, and every
\* other step, leaves the table as it was.  So after n successful inserts
\* there are exactly n rows.
C12_AppendOnly ==
    /\ [](taken = <<>> => history = <<>>)
    /\ [][(InsertReadingReturns /\ ~failed') =>
            /\ Len(dbcalls') = 1
            /\ dbcalls'[1].fn = "insert_reading"
            /\ Len(history') = Len(history) + 1
            /\ IsPrefix(history, history')
            /\ Last(history') =
                  [location |-> dbcalls'[1].location,
                   temperature |-> dbcalls'[1].temperature,
                   humidity |-> dbcalls'[1].humidity]
            /\ heater_history' = heater_history]_vars
    /\ [][~(InsertReadingReturns /\ ~failed') => history' = history]_vars

\* C12 witness: three measurements were handled, the insert failed for one
\* of them, and the table holds the two different rows of the other two.
C12_Witness ==
    /\ Len(taken) = 3
    /\ \A i \in 1..3 : taken[i].type = "RegisterMeasurement"
    /\ epc = "recv"
    /\ Len(history) = 2
    /\ history[1] # history[2]
    /\ history[1].temperature # history[1].humidity

\* C13: while Executor.state.enabled is false no publish is made: no
\* broadcast is under way and none was made for the Action in hand, of
\* whatever kind, and every step that adds a publish is taken with enabled
\* true before and after it.  In particular handling EnableController(false)
\* returns to rx.recv without a publish.
C13_DisabledSilent ==
    /\ [](~state.enabled =>
            /\ pubs = <<>>
            /\ epc # "publish"
            /\ target = None)
    /\ []((taken # <<>> /\ Last(taken) = EnableController(FALSE)) =>
            epc = "recv" /\ pubs = <<>> /\ ~failed)
    /\ [][(pubs' # pubs /\ pubs' # <<>>) =>
            state.enabled /\ state'.enabled]_vars

\* C13 witness: the heaters were commanded on, then the controller was
\* disabled with desired > current still stored, and nothing was published.
C13_Witness ==
    /\ Len(taken) = 4
    /\ taken[3] = EnableController(TRUE)
    /\ taken[4] = EnableController(FALSE)
    /\ state.desired_temperature = Some(215)
    /\ state.current_temperature = Some(190)
    /\ ~state.enabled
    /\ epc = "recv"
    /\ pubs = <<>>

\* The state is enabled with both temperatures present.
Qualifies(st) ==
    st.enabled /\ st.desired_temperature.some /\ st.current_temperature.some

\* The command decided from the stored values of `st`.
DecisionOf(st) ==
    IF st.desired_temperature.v > st.current_temperature.v
    THEN "On" ELSE "Off"

\* C14: taking a SetDesiredTemperature, SetInsideTemperature or
\* EnableController Action that leaves the state enabled with both
\* temperatures present always starts a broadcast at the first heater with
\* the command decided from the stored values, whether or not the Action
\* changed the state and whatever was broadcast before; the broadcast goes
\* on heater by heater while publishes succeed, and when none failed it has
\* published that command to every registered heater.
C14_AlwaysRebroadcast ==
    /\ [][(taken' # taken /\ Last(taken').type \in ControlTypes
             /\ Qualifies(state')) =>
            /\ epc' = "publish"
            /\ hidx' = 1
            /\ pubs' = <<>>
            /\ target' = Some(DecisionOf(state'))]_vars
    /\ [](epc = "publish" =>
            /\ ENABLED PublishHeater
            /\ target = Some(DecisionOf(state)))
    /\ []((InControl /\ Qualifies(state) /\ epc = "recv" /\ ~failed) =>
            pubs = [i \in 1..Len(HEATERS) |->
                      CommandPublish(HEATERS[i], DecisionOf(state))])

\* C14 witness: EnableController(true) was taken a second time, the state
\* did not change, and the same three commands were published again.
C14_Witness ==
    /\ Len(taken) = 4
    /\ taken[3] = EnableController(TRUE)
    /\ taken[4] = EnableController(TRUE)
    /\ taken[1].type # taken[2].type
    /\ Qualifies(state)
    /\ epc = "recv"
    /\ ~failed
    /\ Len(pubs) = Len(HEATERS)

\* The Controller is suspended in tx.send on a full channel while the
\* Executor is suspended in publish on a full request buffer.
BothSuspended ==
    /\ ipc = "send"
    /\ Len(queue) = QueueCap
    /\ epc = "publish"
    /\ requests = RequestCap

\* C17: no state is reachable in which the Controller is suspended sending
\* into a full channel while the Executor is suspended in a publish that
\* waits for room in the full request buffer, which only the Controller's
\* poll drains.
C17_NoTransportDeadlock == ~BothSuspended

\* Every Action enqueued so far has been taken and handle_action has
\* returned for it.
AllHandled ==
    /\ Len(taken) = Len(sent)
    /\ epc = "recv"

\* C15: with both loops scheduled fairly and every publish and insert call
\* returning, every Action the Controller enqueues is eventually taken and
\* handled by the Executor (a run enqueues finitely many, so: again and
\* again nothing enqueued is left untaken or unhandled); a Controller
\* suspended in tx.send on a full channel is eventually resumed; and an
\* Executor at rx.recv can always take an Action when the channel holds one
\* (it waits there only on an empty channel).
C15_Progress ==
    /\ []<>AllHandled
    /\ (ipc = "send" /\ Len(queue) = QueueCap) ~> (ipc = "poll")
    /\ []((epc = "recv" /\ queue # <<>>) => ENABLED Recv)

\* C15 witness: the Controller is suspended in tx.send on a full channel
\* while the Executor, five Actions handled, is in the middle of a
\* broadcast with room left in the client's buffer.
C15_Witness ==
    /\ ipc = "send"
    /\ Len(queue) = QueueCap
    /\ Len(taken) = 6
    /\ epc = "publish"
    /\ hidx = 2
    /\ requests < RequestCap

\* C16: the Executor holds the lock on the Database exactly while it is
\* inside the one insert_reading or insert_heater_state call of a Register*
\* Action: never while waiting at rx.recv, handling a temperature or enable
\* Action, or publishing; the lock is taken for one call only and is free
\* again when the call has returned, with Ok or with Err.
C16_LockScope ==
    /\ [](dbLocked <=> epc = "insert")
    /\ [](dbLocked => (InRegister /\ dbcalls = <<>> /\ pubs = <<>>))
    /\ [](InControl => ~dbLocked)
    /\ [][(epc = "insert" /\ epc' # "insert") =>
            /\ ~dbLocked'
            /\ epc' = "recv"
            /\ Len(dbcalls') = 1]_vars

\* C16 witness: after a broadcast, a measurement was handled, its insert
\* returned Err, and the lock is free with the Executor back at rx.recv.
C16_Witness ==
    /\ Len(taken) = 4
    /\ taken[3] = EnableController(TRUE)
    /\ taken[4].type = "RegisterMeasurement"
    /\ Len(dbcalls) = 1
    /\ failed
    /\ history = <<>>
    /\ epc = "recv"
    /\ ~dbLocked

\* The state holds the value the control Action `a` carries.
Committed(st, a) ==
    /\ a.type = "SetDesiredTemperature" =>
          st.desired_temperature = Some(a.temp)
    /\ a.type = "SetInsideTemperature" =>
          st.current_temperature = Some(a.temp)
    /\ a.type = "EnableController" => st.enabled = a.enabled

\* C18: when a SetDesiredTemperature, SetInsideTemperature or
\* EnableController Action is taken its value is in the state before the
\* first publish, with the other two fields as they were, and the broadcast
\* is decided from that state; the state does not change while the Action
\* is handled and still holds the value after a publish failed; the next
\* control Action starts from it.
C18_CommitFirst ==
    /\ [][(taken' # taken /\ Last(taken').type \in ControlTypes) =>
            /\ Committed(state', Last(taken'))
            /\ pubs' = <<>>
            /\ LET a == Last(taken')
               IN /\ a.type # "SetDesiredTemperature" =>
                        state'.desired_temperature = state.desired_temperature
                  /\ a.type # "SetInsideTemperature" =>
                        state'.current_temperature = state.current_temperature
                  /\ a.type # "EnableController" =>
                        state'.enabled = state.enabled
            /\ epc' = "publish" <=> Qualifies(state')
            /\ Qualifies(state') => target' = Some(DecisionOf(state'))]_vars
    /\ [][taken' = taken => state' = state]_vars
    /\ [](InControl => Committed(state, Last(taken)))

\* C18 witness: temperature/set 21.5 was handled with the controller
\* enabled, the first publish of its broadcast failed, and the state holds
\* 21.5 as the desired temperature.
C18_Witness ==
    /\ taken = << SetInsideTemperature(190), EnableController(TRUE),
                  SetDesiredTemperature(215) >>
    /\ failed
    /\ Len(pubs) = 1
    /\ epc = "recv"
    /\ state = [enabled |-> TRUE, desired_temperature |-> Some(215),
                current_temperature |-> Some(190)]

\* C19: once desired_temperature holds a value it holds one in every later
\* state, and likewise current_temperature: no Action, failed call or
\* disable makes either absent again.  So a control Action handled with
\* both present goes without a broadcast only when enabled is false.
C19_PresenceMonotone ==
    /\ [][state.desired_temperature.some =>
            state'.desired_temperature.some]_vars
    /\ [][state.current_temperature.some =>
            state'.current_temperature.some]_vars
    /\ []((/\ InControl
           /\ state.desired_temperature.some
           /\ state.current_temperature.some
           /\ ~Decided) => ~state.enabled)

\* C19 witness: both temperatures were set, the controller was disabled and
\* a measurement's insert failed; both temperatures are still present.
C19_Witness ==
    /\ Len(taken) = 4
    /\ taken[1].type = "SetDesiredTemperature"
    /\ taken[2].type = "SetInsideTemperature"
    /\ taken[3] = EnableController(FALSE)
    /\ taken[4].type = "RegisterMeasurement"
    /\ failed
    /\ epc = "recv"
    /\ state.desired_temperature = Some(taken[1].temp)
    /\ state.current_temperature = Some(taken[2].temp)

\* C20: what a poll makes of a message (the Action held for the channel, or
\* none, and whether an error is logged) is, in every reachable state and so
\* after every history and with either value of the Controller's own enabled
\* flag, what handle_incoming_message makes of that message's topic and
\* payload alone; a message polled twice in a row gives the same result
\* both times; and no step of the Controller (a poll, a send) changes the
\* Executor's state, which changes only when the Executor takes an Action.
C20_StatelessIngestion ==
    /\ [][feed' # feed =>
            /\ lastPoll'.action = Notified(lastPoll'.ev).action
            /\ lastPoll'.error = Notified(lastPoll'.ev).error
            /\ held' = lastPoll'.action
            /\ (lastPoll.polled /\ lastPoll'.ev = lastPoll.ev) =>
                  /\ lastPoll'.action = lastPoll.action
                  /\ lastPoll'.error = lastPoll.error]_vars
    /\ [][(feed' # feed \/ sent' # sent) => state' = state]_vars
    /\ [][state' # state => (taken' # taken /\ cstate' = cstate)]_vars

\* C20 witness: temperature/set 21.5 came in first and again after
\* temperature/auto true had set the Controller's flag, and gave the same
\* Action both times, while the Executor has not yet taken anything.
C20_Witness ==
    /\ sent = << SetDesiredTemperature(215), EnableController(TRUE),
                 SetDesiredTemperature(215) >>
    /\ cstate.enabled
    /\ taken = <<>>
    /\ state = StateDefault

====
